---- MODULE Spec2Model ----
(***************************************************************************)
(* A model of ReactiveValueImpl (packages/js-draw/src/util/ReactiveValue.ts) *)
(* One reactive value, its listener array, the subscription handles that   *)
(* addUpdateListener returned, and the JavaScript call stack: the code is  *)
(* single-threaded and synchronous, and listeners are caller-supplied      *)
(* callbacks that may call back into the same reactive value.              *)
(*                                                                         *)
(* The second part models the derivation constructors of the same file:    *)
(* several reactive values wired together by the listeners the constructors *)
(* register (reactiveValueFromCallback, reactiveValueFromPropertyMutable,  *)
(* mapReactiveValueMutable, mapReactiveValue), with weak references and    *)
(* garbage collection.                                                     *)
(***************************************************************************)
EXTENDS Integers, Sequences, FiniteSets, TLC

\* Bounds of the exploration.
NumValues == 2
NumCallbacks == 3
MaxHandles == 3
MaxNested == 2

\* The values of type T (compared with ===) and the callback identities.
Values == 1..NumValues
Callbacks == 1..NumCallbacks
None == 0

VARIABLES
    value,      \* #value
    listeners,  \* #onUpdateListeners: the array the field refers to now
    handles,    \* handles[h]: the listener captured by the h-th returned handle
    stack,      \* the call stack: setValue loops, running listeners, onUpdateAndNow
    budget,     \* calls that listeners may still make from inside their bodies
    ev,         \* history: the step that was taken last
    unsub,      \* history: callbacks removed and not registered again since
    byItself,   \* history: those of unsub whose last remove() was called by themselves
    recorded,   \* the optional histories that the behaviour records: "used", "lastArg"
    used,       \* history "used": handles whose remove() has been called
    watched,    \* history "lastArg": callbacks registered by onUpdateAndNow, not removed since
    lastArg,    \* history "lastArg": the argument of each callback's last invocation
    reentered   \* history "lastArg": a listener has changed the value by calling setValue

\* The state of the derivation constructors' specifications.
VARIABLES
    vals,       \* vals[o]: #value of the reactive value o
    subs,       \* subs[o]: #onUpdateListeners of o, an array of closures
    calls,      \* the call stack: setValue loops and running listeners
    held,       \* the reactive values the caller still holds a reference to
    dead,       \* the reactive values that have been garbage collected
    expectedResultValue,  \* mapReactiveValueMutable's variable of that name
    given,      \* the functions the caller passed: map, inverseMap, callback
    did,        \* history: the step that was taken last
    tally       \* history of the top-level call in progress (or the last one)

single == <<value, listeners, handles, stack, budget, ev, unsub, byItself, recorded, used,
            watched, lastArg, reentered>>

wired == <<vals, subs, calls, held, dead, expectedResultValue, given, did, tally>>

\* The state of the specifications of the editor's tools and widgets.
VARIABLES
    tool,       \* the fields of the TextTool; the enabled flag of the widgets' tools
    widget,     \* the fields of the widget and of its elements
    env,        \* the browser and the editor: timers, promises, focus, dispatched
                \* commands, announcements, the image, last event
    svg         \* the SVG exports: viewport clone, element, progress

ui == <<tool, widget, env, svg>>

vars == <<single, wired, ui>>

----------------------------------------------------------------------------
\* Sequence helpers.

Range(s) == {s[i] : i \in DOMAIN s}

IsPrefix(s, t) == Len(s) <= Len(t) /\ \A i \in DOMAIN s : s[i] = t[i]

Occurrences(s, x) == Cardinality({i \in DOMAIN s : s[i] = x})

----------------------------------------------------------------------------
\* The code's expressions.

\* A setValue without its early return.
IsSameValue_NoCheck(current, newValue) == FALSE

\* setValue's early return: this.#value === newValue.
IsSameValue(current, newValue) == current = newValue

\* A setValue that stores only after its loop.
StoredBeforeLoop_Late(current, newValue) == current

\* this.#value = newValue, before the loop.
StoredBeforeLoop(current, newValue) == newValue

\* this.#onUpdateListeners.push(listener)
Pushed(array, listener) == Append(array, listener)

\* A remove() that deletes one registration only: splice(indexOf(listener), 1).
RECURSIVE Filtered_FirstOnly(_, _)
Filtered_FirstOnly(array, listener) ==
    IF array = <<>> THEN <<>>
    ELSE IF Head(array) = listener THEN Tail(array)
    ELSE <<Head(array)>> \o Filtered_FirstOnly(Tail(array), listener)

\* A remove() by splice(indexOf(listener), 1) that does not test for -1:
\* splice(-1, 1) deletes the last element.
Filtered_Splice(array, listener) ==
    IF \E i \in DOMAIN array : array[i] = listener
    THEN Filtered_FirstOnly(array, listener)
    ELSE SubSeq(array, 1, Len(array) - 1)

\* this.#onUpdateListeners.filter(otherListener => otherListener !== listener)
Filtered(array, listener) == SelectSeq(array, LAMBDA otherListener : otherListener # listener)

\* The frame of one setValue call that is running its for...of loop.  The loop
\* iterates the array object the field referred to when the loop began: arr is
\* that object's content, and shared says whether the field still refers to it
\* (push changes the object in place; remove makes the field refer to a new one).
\* idx is the array iterator's next index.  The other fields are history:
\*   snap    the listeners registered when setValue was called;
\*   late    the listeners registered since, before any remove() (cut);
\*   called  the invocations this loop has made, in order;
\*   gone    the callbacks that were unsubscribed when setValue was called and
\*           have not been registered since (goneSelf: unsubscribed by themselves);
\*   dirty   a later setValue has stored another value since this one stored its own;
\*   selfRemoved  the listeners that removed themselves while this loop ran them.
SetValueFrame(newValue) ==
    [kind |-> "setValue", newValue |-> newValue, arr |-> listeners, shared |-> TRUE,
     idx |-> 1,
     snap |-> listeners, late |-> <<>>, cut |-> FALSE, called |-> <<>>,
     gone |-> unsub, goneSelf |-> byItself, dirty |-> FALSE, selfRemoved |-> {}]

\* A listener that is running: listener(newValue).
ListenerFrame(cb, arg) == [kind |-> "listener", cb |-> cb, arg |-> arg]

\* An onUpdateAndNow call whose callback(this.getValue()) is running.
NowFrame(cb, arg) ==
    [kind |-> "onUpdateAndNow", cb |-> cb, atCall |-> value, given |-> <<arg>>]

Top == stack[Len(stack)]

Pop == SubSeq(stack, 1, Len(stack) - 1)

\* Who may call the reactive value's methods: the top level (nothing is
\* running), or the listener that is running now.
MayCall == IF stack = <<>> THEN TRUE ELSE Top.kind = "listener" /\ budget > 0

Spend == budget' = IF stack = <<>> THEN budget ELSE budget - 1

\* An onUpdateAndNow that calls callback() without the value.
NowArg_Missing == None

\* onUpdateAndNow's argument for the callback: this.getValue().
NowArg == value

\* The listener the loop's iterator yields next.
NextListener(frame) == frame.arr[frame.idx]

\* listener(newValue)
ListenerArg(frame) == frame.newValue

\* A loop that stops one element early.
LoopDone_OneEarly(frame) == frame.idx >= Len(frame.arr)

\* The iterator is done when its index has reached the array's length.
LoopDone(frame) == frame.idx > Len(frame.arr)

\* A loop over a copy of the array ([...this.#onUpdateListeners]).
PushSeenBy_Copy(frame, listener) == frame

\* The effect of push on a loop in progress: the loop sees the new element when
\* it iterates the very array the field refers to.
PushSeenBy(frame, listener) ==
    IF frame.kind = "setValue" /\ frame.shared
    THEN [frame EXCEPT !.arr = Pushed(frame.arr, listener)]
    ELSE frame

\* A remove() that deletes from the array in place (splice) under the loop.
RemoveSeenBy_InPlace(frame, listener) ==
    IF frame.kind = "setValue" /\ frame.shared
    THEN [frame EXCEPT !.arr = Filtered(frame.arr, listener)]
    ELSE frame

\* The effect of remove on a loop in progress: filter returns a new array, so
\* the loop keeps the old one, which nothing changes any more.
RemoveSeenBy(frame, listener) ==
    IF frame.kind = "setValue" THEN [frame EXCEPT !.shared = FALSE] ELSE frame

\* History kept in the frames.
NotePush(frame, listener) ==
    IF frame.kind = "setValue"
    THEN [frame EXCEPT !.late = IF frame.cut THEN @ ELSE Append(@, listener),
                       !.gone = @ \ {listener},
                       !.goneSelf = @ \ {listener}]
    ELSE frame

\* caller: the listener that is calling remove(), None at the top level.
NoteRemove(frame, isInnermost, listener, caller) ==
    IF frame.kind = "setValue"
    THEN [frame EXCEPT !.cut = TRUE,
                       !.selfRemoved = IF isInnermost /\ caller = listener
                                       THEN @ \cup {listener} ELSE @]
    ELSE frame

\* The listener that is running now, None at the top level.
Caller == IF stack = <<>> THEN None ELSE Top.cb

\* The position in the stack of the loop that invoked the running listener
\* (0: none, the listener was invoked by onUpdateAndNow or nothing is running).
InvokingLoop ==
    IF Len(stack) >= 2 /\ stack[Len(stack) - 1].kind = "setValue"
    THEN Len(stack) - 1 ELSE 0

NoteStore(frame) ==
    IF frame.kind = "setValue" THEN [frame EXCEPT !.dirty = TRUE] ELSE frame

\* A history variable's next value: new where the behaviour records it.
Record(history, new, old) == IF history \in recorded THEN new ELSE old

----------------------------------------------------------------------------
Start ==
    /\ value \in Values
    /\ listeners = <<>>
    /\ handles = <<>>
    /\ stack = <<>>
    /\ budget = MaxNested
    /\ ev = [op |-> "new"]
    /\ unsub = {}
    /\ byItself = {}
    /\ used = {}
    /\ watched = {}
    /\ lastArg = [cb \in Callbacks |-> None]
    /\ reentered = FALSE
    /\ vals = <<>> /\ subs = <<>> /\ calls = <<>>
    /\ held = {} /\ dead = {}
    /\ expectedResultValue = None
    /\ given = <<>> /\ did = <<>> /\ tally = <<>>
    /\ tool = <<>> /\ widget = <<>> /\ env = <<>> /\ svg = <<>>

\* new ReactiveValueImpl(initialValue)
Init == Start /\ recorded = {}

InitUsed == Start /\ recorded = {"used"}

InitLastArg == Start /\ recorded = {"lastArg"}

\* setValue(newValue), up to the start of the loop.
SetValue(newValue) ==
    /\ MayCall
    /\ Spend
    /\ IF IsSameValue(value, newValue)
       THEN UNCHANGED <<value, stack, reentered>>
       ELSE /\ value' = StoredBeforeLoop(value, newValue)
            /\ reentered' = Record("lastArg", reentered \/ stack # <<>>, reentered)
            /\ stack' = Append([i \in 1..Len(stack) |-> NoteStore(stack[i])],
                               SetValueFrame(newValue))
    /\ ev' = [op |-> "setValue", arg |-> newValue, same |-> (value = newValue)]
    /\ UNCHANGED <<listeners, handles, unsub, byItself, recorded, wired, ui, used, watched, lastArg>>

\* One iteration of setValue's loop: listener(newValue).
Notify ==
    /\ stack # <<>>
    /\ Top.kind = "setValue"
    /\ ~LoopDone(Top)
    /\ LET cb == NextListener(Top)
           arg == ListenerArg(Top)
       IN /\ stack' = Append(Append(Pop, [Top EXCEPT !.idx = @ + 1,
                                                     !.called = Append(@, [cb |-> cb, arg |-> arg])]),
                             ListenerFrame(cb, arg))
          /\ lastArg' = Record("lastArg", [lastArg EXCEPT ![cb] = arg], lastArg)
          /\ ev' = [op |-> "invoke"]
    /\ UNCHANGED <<value, listeners, handles, budget, unsub, byItself, recorded, wired, ui, used, watched,
                   reentered>>

\* The loop's end: setValue returns.
SetValueReturn ==
    /\ stack # <<>>
    /\ Top.kind = "setValue"
    /\ LoopDone(Top)
    /\ stack' = Pop
    /\ ev' = [op |-> "setValueReturn"]
    /\ UNCHANGED <<value, listeners, handles, budget, unsub, byItself, recorded, wired, ui, used, watched,
                   lastArg, reentered>>

\* The running listener returns.
ListenerReturn ==
    /\ stack # <<>>
    /\ Top.kind = "listener"
    /\ stack' = Pop
    /\ ev' = [op |-> "return"]
    /\ UNCHANGED <<value, listeners, handles, budget, unsub, byItself, recorded, wired, ui, used, watched,
                   lastArg, reentered>>

\* addUpdateListener(listener): push, and return a new handle.
Register(listener, below) ==
    /\ listeners' = Pushed(listeners, listener)
    /\ handles' = Append(handles, listener)
    /\ stack' = [i \in 1..Len(below) |-> NotePush(PushSeenBy(below[i], listener), listener)]
    /\ unsub' = unsub \ {listener}
    /\ byItself' = byItself \ {listener}

AddUpdateListener(listener) ==
    /\ MayCall
    /\ Len(handles) < MaxHandles
    /\ Spend
    /\ Register(listener, stack)
    /\ ev' = [op |-> "add"]
    /\ UNCHANGED <<value, recorded, wired, ui, used, watched, lastArg, reentered>>

\* remove() of the h-th handle.
Remove(h) ==
    /\ MayCall
    /\ Spend
    /\ listeners' = Filtered(listeners, handles[h])
    /\ stack' = [i \in 1..Len(stack) |->
                    NoteRemove(RemoveSeenBy(stack[i], handles[h]), i = InvokingLoop, handles[h],
                               Caller)]
    /\ unsub' = unsub \cup {handles[h]}
    /\ byItself' = IF Caller = handles[h] THEN byItself \cup {handles[h]}
                                          ELSE byItself \ {handles[h]}
    /\ used' = Record("used", used \cup {h}, used)
    /\ watched' = watched \ {handles[h]}
    /\ ev' = [op |-> "remove", h |-> h, again |-> (h \in used),
              n |-> Occurrences(listeners, handles[h])]
    /\ UNCHANGED <<value, handles, recorded, wired, ui, lastArg, reentered>>

\* onUpdateAndNow(callback), first statement: callback(this.getValue()).
OnUpdateAndNow(callback) ==
    /\ MayCall
    /\ Len(handles) < MaxHandles
    /\ Spend
    /\ LET arg == NowArg
       IN /\ stack' = Append(Append(stack, NowFrame(callback, arg)),
                             ListenerFrame(callback, arg))
          /\ lastArg' = Record("lastArg", [lastArg EXCEPT ![callback] = arg], lastArg)
    /\ ev' = [op |-> "onUpdateAndNow"]
    /\ UNCHANGED <<value, listeners, handles, unsub, byItself, recorded, wired, ui, used, watched, reentered>>

\* An onUpdateAndNow that returns without registering the callback.
OnUpdateAndNowRegister_Forgets ==
    /\ stack # <<>>
    /\ Top.kind = "onUpdateAndNow"
    /\ stack' = Pop
    /\ handles' = Append(handles, Top.cb)
    /\ watched' = Record("lastArg", watched \cup {Top.cb}, watched)
    /\ ev' = [op |-> "onUpdateAndNowReturn"]
    /\ UNCHANGED <<value, listeners, budget, unsub, byItself, recorded, wired, ui, used, lastArg, reentered>>

\* onUpdateAndNow, second statement: return this.addUpdateListener(callback).
OnUpdateAndNowRegister ==
    /\ stack # <<>>
    /\ Top.kind = "onUpdateAndNow"
    /\ Register(Top.cb, Pop)
    /\ watched' = Record("lastArg", watched \cup {Top.cb}, watched)
    /\ ev' = [op |-> "onUpdateAndNowReturn"]
    /\ UNCHANGED <<value, budget, recorded, wired, ui, used, lastArg, reentered>>

Next ==
    \/ \E newValue \in Values : SetValue(newValue)
    \/ Notify
    \/ SetValueReturn
    \/ ListenerReturn
    \/ \E listener \in Callbacks : AddUpdateListener(listener)
    \/ \E h \in DOMAIN handles : Remove(h)
    \/ \E callback \in Callbacks : OnUpdateAndNow(callback)
    \/ OnUpdateAndNowRegister

Spec == Init /\ [][Next]_vars

\* The same behaviours, with the history of the handles used.
SpecUsed == InitUsed /\ [][Next]_vars

\* The same behaviours, with the history of the callbacks' arguments.
SpecLastArg == InitLastArg /\ [][Next]_vars

----------------------------------------------------------------------------
\* The setValue loops in progress, innermost last.
Loops == {i \in 1..Len(stack) : stack[i].kind = "setValue"}

AtTop(kind) == stack # <<>> /\ Top.kind = kind

\* The loop on top of the stack has ended and setValue is about to return.
Returning == AtTop("setValue") /\ LoopDone(Top)

Invoked(frame) == [k \in 1..Len(frame.called) |-> frame.called[k].cb]

----------------------------------------------------------------------------
\* C1: setValue(v) with v identical to the stored value invokes no listener
\* (no loop starts and nothing begins to run: the call stack is as it was) and
\* leaves the stored value, the listener array and the handles as they were;
\* so of setValue(x) followed by setValue(x) only the first call notifies.
C1_SameValueIsNoOp ==
    [][(ev'.op = "setValue" /\ ev'.arg = value) =>
          /\ value' = value
          /\ listeners' = listeners
          /\ handles' = handles
          /\ stack' = stack]_vars

\* setValue(x) was called at the top level while x was stored and two
\* listeners were registered, and nothing is running.
C1_Witness ==
    /\ ev.op = "setValue" /\ ev.same /\ stack = <<>>
    /\ Len(listeners) >= 2

\* C2: setValue(v) with v different from the stored value stores v before it
\* invokes anything, and then invokes the listeners that were registered at
\* the call, each once, in the order of registration, each with v: when the
\* call returns its first invocations are exactly those.
C2_NotifiesAllInOrder ==
    /\ (ev.op = "setValue" /\ ~ev.same) =>
          /\ AtTop("setValue")
          /\ value = ev.arg /\ Top.newValue = ev.arg
          /\ Top.called = <<>> /\ Top.snap = listeners
    /\ \A i \in Loops :
          \A k \in 1..Len(stack[i].called) :
              k <= Len(stack[i].snap) =>
                  stack[i].called[k] = [cb |-> stack[i].snap[k], arg |-> stack[i].newValue]
    /\ Returning => Len(Top.called) >= Len(Top.snap)

\* A setValue that has notified two different listeners is about to return.
C2_Witness ==
    /\ Returning
    /\ Len(Top.snap) >= 2 /\ Top.snap[1] # Top.snap[2]
    /\ Len(Top.called) >= 2

\* C3: once remove() of a handle of cb has returned, no setValue call that
\* begins afterwards invokes cb, as long as cb is not registered again.
C3_RemovedNotInvoked ==
    \A i \in Loops : \A k \in 1..Len(stack[i].called) :
        stack[i].called[k].cb \notin stack[i].gone

\* A setValue that began after the remove() of a callback has run its loop
\* over the listeners that remained.
C3_Witness ==
    /\ Returning
    /\ Top.called # <<>>
    /\ Top.gone # {}

\* C4 as claimed: one loop invokes only listeners that were registered when
\* its setValue was called, each at most once; a listener added from inside a
\* callback of the loop is not invoked by that loop.
C4_Original ==
    \A i \in Loops : IsPrefix(Invoked(stack[i]), stack[i].snap)

\* C4 as amended: one loop invokes, each once and in this order, the listeners
\* that were registered when its setValue was called and then the listeners
\* registered from inside its callbacks before the first remove() call made
\* after the loop began; a listener registered after such a remove() is not
\* invoked by that loop.
C4_LoopSeesPushesUntilRemove ==
    /\ \A i \in Loops : IsPrefix(Invoked(stack[i]), stack[i].snap \o stack[i].late)
    /\ Returning => Invoked(Top) = Top.snap \o Top.late

\* A loop that has invoked a listener registered during the loop is about to
\* return.
C4_Witness ==
    /\ Returning
    /\ Top.late # <<>>
    /\ Len(Top.called) = Len(Top.snap) + Len(Top.late)

\* C5 as claimed: at the start of every invocation of a listener its argument
\* is what getValue() returns.
C5_Original ==
    (ev.op \in {"invoke", "onUpdateAndNow"}) => Top.arg = value

\* C5 as amended: a listener invoked by a loop gets that loop's newValue, and
\* this is what getValue() returns at the start of the invocation unless a
\* setValue called from inside a listener has stored another value since the
\* loop's setValue stored its own; the callback of onUpdateAndNow gets what
\* getValue() returns.
C5_ArgIsStoredUnlessReentered ==
    /\ ev.op = "invoke" =>
          /\ Top.arg = stack[InvokingLoop].newValue
          /\ ~stack[InvokingLoop].dirty => Top.arg = value
    /\ ev.op = "onUpdateAndNow" => Top.arg = value

\* The second listener of a loop has just been invoked with the stored value.
C5_Witness ==
    /\ ev.op = "invoke"
    /\ Len(stack[InvokingLoop].called) >= 2
    /\ ~stack[InvokingLoop].dirty
    /\ Top.arg = value

\* C6: when a listener removes its own subscription from inside its callback,
\* the loop running it goes on: the listeners registered when setValue was
\* called are all invoked, once each and in order, before setValue returns;
\* the listener is out of the listener array as soon as remove() returns, and
\* no setValue called later invokes it (unless it is registered again).
C6_SelfRemoval ==
    /\ \A i \in Loops :
          stack[i].selfRemoved # {} =>
              \A k \in 1..Len(stack[i].called) :
                  k <= Len(stack[i].snap) =>
                      stack[i].called[k] =
                          [cb |-> stack[i].snap[k], arg |-> stack[i].newValue]
    /\ (Returning /\ Top.selfRemoved # {}) => Len(Top.called) >= Len(Top.snap)
    /\ (ev.op = "remove" /\ AtTop("listener") /\ Top.cb = handles[ev.h]) =>
          Top.cb \notin Range(listeners)
    /\ \A i \in Loops : \A k \in 1..Len(stack[i].called) :
          stack[i].called[k].cb \notin stack[i].goneSelf

\* A loop in which a listener that was not the last one removed itself has
\* invoked every listener and is about to return.
C6_Witness ==
    /\ Returning
    /\ \E k \in 1..(Len(Top.snap) - 1) : Top.snap[k] \in Top.selfRemoved
    /\ Len(Top.called) >= Len(Top.snap)

\* C7 as claimed: a second or later remove() on the same handle leaves the
\* listener array unchanged.
C7_Original ==
    [][(ev'.op = "remove" /\ ev'.h \in used) => listeners' = listeners]_vars

\* C7 as amended: a second or later remove() on the same handle leaves the
\* listener array unchanged exactly when the handle's callback has not been
\* registered again since the last remove() of that callback; otherwise it
\* removes the callback's new registrations.
C7_RepeatedRemove ==
    [][(ev'.op = "remove" /\ ev'.h \in used) =>
          /\ (listeners' = listeners) <=> (handles[ev'.h] \in unsub)
          /\ handles[ev'.h] \notin Range(listeners')]_vars

\* remove() was called again on a handle and left the other listeners registered.
C7_Witness ==
    /\ ev.op = "remove" /\ ev.again /\ ev.n = 0
    /\ listeners # <<>>

\* The array without the registrations of one callback, the others in order.
RECURSIVE Others(_, _)
Others(array, cb) ==
    IF array = <<>> THEN <<>>
    ELSE IF Head(array) = cb THEN Others(Tail(array), cb)
    ELSE <<Head(array)>> \o Others(Tail(array), cb)

\* C8: remove() on a handle of cb removes every registration of cb from the
\* listener array and nothing else: the other listeners stay, in their order.
C8_RemoveByIdentity ==
    [][ev'.op = "remove" =>
          /\ handles[ev'.h] \notin Range(listeners')
          /\ listeners' = Others(listeners, handles[ev'.h])
          /\ \A cb \in Callbacks \ {handles[ev'.h]} :
                Occurrences(listeners', cb) = Occurrences(listeners, cb)]_vars

\* remove() through one handle has removed two registrations of its callback
\* and left another listener registered.
C8_Witness ==
    /\ ev.op = "remove" /\ ev.n = 2
    /\ listeners # <<>>

\* C9: onUpdateAndNow(cb) invokes cb once, with the value getValue() returns
\* at the call, before it registers anything; when it returns it has made no
\* other invocation and has registered cb as addUpdateListener does: at the
\* end of the listener array, with a new handle.
C9_OnUpdateAndNow ==
    [][/\ ev'.op = "onUpdateAndNow" =>
            /\ Len(stack') = Len(stack) + 2
            /\ SubSeq(stack', 1, Len(stack)) = stack
            /\ stack'[Len(stack) + 1].kind = "onUpdateAndNow"
            /\ Top' = ListenerFrame(stack'[Len(stack) + 1].cb, value)
            /\ listeners' = listeners
       /\ ev'.op = "onUpdateAndNowReturn" =>
            /\ Top.given = <<Top.atCall>>
            /\ listeners' = Append(listeners, Top.cb)
            /\ handles' = Append(handles, Top.cb)]_vars

\* onUpdateAndNow has returned: its callback is now registered after a
\* different listener.
C9_Witness ==
    /\ ev.op = "onUpdateAndNowReturn"
    /\ Len(listeners) >= 2
    /\ listeners[Len(listeners)] # listeners[1]

\* When onUpdateAndNow(cb) returns, the last argument of cb is the stored
\* value; and whenever nothing is running (every top-level call has returned),
\* so is the last argument of every callback that onUpdateAndNow registered
\* and that has not been removed since.
UpToDate ==
    /\ ev.op = "onUpdateAndNowReturn" => lastArg[handles[Len(handles)]] = value
    /\ stack = <<>> => \A cb \in watched : lastArg[cb] = value

\* C10 as claimed: onUpdateAndNow misses no update in any behaviour.
C10_Original == UpToDate

\* C10 as amended: onUpdateAndNow misses no update in the behaviours in which
\* no listener changes the value by calling setValue from inside its body
\* (neither during the immediate invocation nor during a loop).
C10_NoMissedUpdateWithoutReentry == ~reentered => UpToDate

\* A top-level setValue has returned after notifying a callback that
\* onUpdateAndNow registered, and no listener has ever called setValue.
C10_Witness ==
    /\ stack = <<>> /\ ev.op = "setValueReturn" /\ ~reentered
    /\ \E cb \in watched : lastArg[cb] = value

----------------------------------------------------------------------------
\* THE DERIVATION CONSTRUCTORS: reactive values wired together by listeners.

\* Bounds of the exploration.
NumObservers == 2
MaxCount == 2

\* The caller's own listeners on the wired values: they only look at their
\* argument (they call nothing).
Observers == 1..NumObservers

\* The closures that are registered as listeners.
Observer(id) == [kind |-> "observer", id |-> id]

\* mapReactiveValueMutable: source.addUpdateListener(newValue => ...)
MapDown == [kind |-> "mapDown"]

\* mapReactiveValueMutable: result.addUpdateListener(newValue => ...)
MapUp == [kind |-> "mapUp"]

\* A counter of the history, saturating at MaxCount.
Count(n) == IF n < MaxCount THEN n + 1 ELSE MaxCount

Idle == calls = <<>>

TopCall == calls[Len(calls)]

PopCall == SubSeq(calls, 1, Len(calls) - 1)

\* The frame of a setValue call on o that runs its loop; origin says who made
\* the call ("external": the caller at the top level).
LoopFrame(o, newValue, origin) ==
    [kind |-> "setValue", obj |-> o, newValue |-> newValue, arr |-> subs[o],
     shared |-> TRUE, idx |-> 1, origin |-> origin]

\* A listener that is running; pc = "called": it is inside the call that ends it.
Running(fn, arg) == [kind |-> "listener", fn |-> fn, arg |-> arg, pc |-> "body"]

\* The stack under a call that the running listener makes as its last statement.
Calling == Append(PopCall, [TopCall EXCEPT !.pc = "called"])

\* The loop that invoked the running listener.
ByLoop == calls[Len(calls) - 1]

\* o.setValue(newValue) called with the frames `under` below it.
CallSetValue(o, newValue, under, origin) ==
    IF IsSameValue(vals[o], newValue)
    THEN /\ vals' = vals
         /\ calls' = IF under # <<>> /\ under[Len(under)].kind = "listener"
                     THEN SubSeq(under, 1, Len(under) - 1) ELSE under
    ELSE /\ vals' = [vals EXCEPT ![o] = StoredBeforeLoop(vals[o], newValue)]
         /\ calls' = Append(under, LoopFrame(o, newValue, origin))

InBody(kind) == calls # <<>> /\ TopCall.kind = "listener" /\ TopCall.pc = "body"
                    /\ TopCall.fn.kind = kind

\* The objects a closure refers to strongly (the variables it captures; a
\* WeakRef is not among them).
Captured(fn) ==
    CASE fn.kind = "mapDown" -> {"result"}
      [] fn.kind = "mapUp" -> {"source"}
      [] fn.kind = "propertyDown" -> {"sourceValue"}
      [] fn.kind = "propertyUp" -> {"sourceValue"}
      [] fn.kind = "fromCallback" -> {"value1", "value2"}
      [] fn.kind = "mapOnly" -> {"result"}
      [] OTHER -> {}

\* The objects that the listeners registered on o refer to strongly.
CapturedBy(o) == UNION {Captured(subs[o][i]) : i \in DOMAIN subs[o]}

\* The reactive values reachable from roots through listener arrays and the
\* closures in them.
RECURSIVE ReachableFrom(_)
ReachableFrom(roots) ==
    LET more == roots \cup UNION {CapturedBy(o) : o \in roots}
    IN IF more = roots THEN roots ELSE ReachableFrom(more)

Registered == UNION {Range(subs[o]) : o \in DOMAIN subs}

NewTally(o, newValue) ==
    [obj |-> o, arg |-> newValue, before |-> vals, expected |-> expectedResultValue,
     maps |-> 0, inverses |-> 0, forwards |-> 0, computes |-> 0, changes |-> 0,
     fired |-> [id \in Observers |-> 0], last |-> [id \in Observers |-> None]]

\* A top-level o.setValue(newValue) by the caller.
UserSetValue(o, newValue) ==
    /\ Idle
    /\ o \in held
    /\ CallSetValue(o, newValue, <<>>, "external")
    /\ tally' = NewTally(o, newValue)
    /\ did' = [op |-> "setValue"]
    /\ UNCHANGED <<single, ui, subs, held, dead, expectedResultValue, given>>

\* One iteration of a setValue loop: listener(newValue).
Fire ==
    /\ calls # <<>>
    /\ TopCall.kind = "setValue"
    /\ ~LoopDone(TopCall)
    /\ calls' = Append(Append(PopCall, [TopCall EXCEPT !.idx = @ + 1]),
                       Running(NextListener(TopCall), ListenerArg(TopCall)))
    /\ tally' = IF NextListener(TopCall).kind = "fromCallback"
                THEN [tally EXCEPT !.forwards = Count(@)] ELSE tally
    /\ did' = [op |-> "invoke"]
    /\ UNCHANGED <<single, ui, vals, subs, held, dead, expectedResultValue, given>>

\* The end of a setValue loop: setValue returns.
Finish ==
    /\ calls # <<>>
    /\ TopCall.kind = "setValue"
    /\ LoopDone(TopCall)
    /\ calls' = PopCall
    /\ did' = [op |-> "setValueReturn"]
    /\ UNCHANGED <<single, ui, vals, subs, held, dead, expectedResultValue, given, tally>>

\* The setValue call that a listener made as its last statement has returned:
\* the listener returns.
ListenerDone ==
    /\ calls # <<>>
    /\ TopCall.kind = "listener"
    /\ TopCall.pc = "called"
    /\ calls' = PopCall
    /\ did' = [op |-> "return"]
    /\ UNCHANGED <<single, ui, vals, subs, held, dead, expectedResultValue, given, tally>>

\* The body of one of the caller's listeners.
ObserverBody ==
    /\ InBody("observer")
    /\ calls' = PopCall
    /\ tally' = [tally EXCEPT !.fired[TopCall.fn.id] = Count(@),
                              !.last[TopCall.fn.id] = TopCall.arg]
    /\ did' = [op |-> "observer"]
    /\ UNCHANGED <<single, ui, vals, subs, held, dead, expectedResultValue, given>>

\* The caller registers one of its listeners: o.addUpdateListener(observer).
UserAddListener(o, id) ==
    /\ Idle
    /\ o \in held
    /\ Observer(id) \notin Registered
    /\ subs' = [subs EXCEPT ![o] = Pushed(@, Observer(id))]
    /\ did' = [op |-> "add"]
    /\ UNCHANGED <<single, ui, vals, calls, held, dead, expectedResultValue, given, tally>>

\* The caller drops its reference to o.
Drop(o) ==
    /\ Idle
    /\ o \in held
    /\ held' = held \ {o}
    /\ did' = [op |-> "drop"]
    /\ UNCHANGED <<single, ui, vals, subs, calls, dead, expectedResultValue, given, tally>>

\* The garbage collector reclaims o, which nothing the caller holds reaches.
Collect(o) ==
    /\ Idle
    /\ o \notin dead
    /\ o \notin ReachableFrom(held)
    /\ dead' = dead \cup {o}
    /\ did' = [op |-> "collect"]
    /\ UNCHANGED <<single, ui, vals, subs, calls, held, expectedResultValue, given, tally>>

\* A listener that returns without removing itself.
RemoveItself_Stays(o, fn) == subs' = subs /\ calls' = PopCall

\* listener.remove() called by the running listener fn, registered on o, as
\* its last statement: the field of o refers to a new filtered array, the
\* loops in progress on o keep the old one, and the listener returns.
RemoveItself(o, fn) ==
    /\ subs' = [subs EXCEPT ![o] = Filtered(@, fn)]
    /\ calls' = [i \in 1..(Len(calls) - 1) |->
                    IF calls[i].kind = "setValue" /\ calls[i].obj = o
                    THEN RemoveSeenBy(calls[i], fn) ELSE calls[i]]

\* WeakRef.deref(): the object, unless it has been collected.
Deref(o) == o \notin dead

\* The state of the first part in the specifications of this part.
NoSingle ==
    /\ value = None /\ listeners = <<>> /\ handles = <<>> /\ stack = <<>>
    /\ budget = 0 /\ ev = <<>>
    /\ unsub = {} /\ byItself = {} /\ recorded = {} /\ used = {} /\ watched = {}
    /\ lastArg = <<>> /\ reentered = FALSE

\* The state of the tools and widgets in the specifications of the reactive
\* values.
NoUi == tool = <<>> /\ widget = <<>> /\ env = <<>> /\ svg = <<>>

\* The state of the reactive values in the specifications of the tools and
\* widgets.
NoWired ==
    /\ vals = <<>> /\ subs = <<>> /\ calls = <<>>
    /\ held = {} /\ dead = {}
    /\ expectedResultValue = None
    /\ given = <<>> /\ did = <<>> /\ tally = <<>>

----------------------------------------------------------------------------
\* mapReactiveValueMutable(source, map, inverseMap)

\* A source listener that pushes the source's value as it is.
Mapped_Unmapped(newValue) == newValue

\* map(newValue)
Mapped(newValue) == given.map[newValue]

\* The source's listener: expectedResultValue = map(newValue);
\* result.setValue(expectedResultValue).
MapDownBody ==
    /\ InBody("mapDown")
    /\ LET mapped == Mapped(TopCall.arg)
       IN /\ expectedResultValue' = mapped
          /\ CallSetValue("result", mapped, Calling, "propagation")
    /\ tally' = [tally EXCEPT !.maps = Count(@)]
    /\ did' = [op |-> "mapDown"]
    /\ UNCHANGED <<single, ui, subs, held, dead, given>>

\* A result listener without the test: every update goes back to the source.
IsEcho_Never(newValue, expected) == FALSE

\* The test of the result's listener: newValue !== expectedResultValue.
IsEcho(newValue, expected) == newValue = expected

\* The result's listener: unless the new value is the expected one,
\* source.setValue(inverseMap(newValue)).
MapUpBody ==
    /\ InBody("mapUp")
    /\ IF IsEcho(TopCall.arg, expectedResultValue)
       THEN /\ calls' = PopCall
            /\ UNCHANGED <<vals, tally>>
       ELSE /\ CallSetValue("source", given.inverseMap[TopCall.arg], Calling, "inverse")
            /\ tally' = [tally EXCEPT !.inverses = Count(@)]
    /\ did' = [op |-> "mapUp", origin |-> ByLoop.origin,
               echo |-> IsEcho(TopCall.arg, expectedResultValue)]
    /\ UNCHANGED <<single, ui, subs, held, dead, expectedResultValue, given>>

\* The state when mapReactiveValueMutable returns: the source may have had
\* listeners before.
InitMap ==
    /\ NoSingle
    /\ NoUi
    /\ given \in [map : [Values -> Values], inverseMap : [Values -> Values]]
    /\ \E initial \in Values, before \in {<<>>, <<Observer(1)>>} :
          /\ vals = [source |-> initial, result |-> given.map[initial]]
          /\ subs = [source |-> Pushed(before, MapDown), result |-> <<MapUp>>]
          /\ expectedResultValue = given.map[initial]
    /\ calls = <<>>
    /\ held = {"source", "result"}
    /\ dead = {}
    /\ did = [op |-> "new"]
    /\ tally = NewTally("source", vals.source)

NextMap ==
    \/ \E o \in {"source", "result"}, newValue \in Values : UserSetValue(o, newValue)
    \/ Fire
    \/ Finish
    \/ ListenerDone
    \/ ObserverBody
    \/ MapDownBody
    \/ MapUpBody
    \/ \E o \in {"source", "result"}, id \in Observers : UserAddListener(o, id)
    \/ \E o \in {"source", "result"} : Drop(o)
    \/ \E o \in {"source", "result"} : Collect(o)

SpecMap == InitMap /\ [][NextMap]_vars

\* Every step of a call in progress is taken eventually (the code runs on).
SpecMapFair ==
    SpecMap /\ WF_vars(Fire \/ Finish \/ ListenerDone \/ ObserverBody \/ MapDownBody \/ MapUpBody)

----------------------------------------------------------------------------
\* reactiveValueFromPropertyMutable(sourceValue, propertyName)

\* Bound: the object identities available for the values of sourceValue.
NumObjects == 3

\* sourceValue.addUpdateListener(newValue => ...)
PropertyDown == [kind |-> "propertyDown"]

\* child.addUpdateListener(newValue => ...)
PropertyUp == [kind |-> "propertyUp"]

\* The values of sourceValue: objects with an identity (what === compares),
\* the property propertyName names (prop) and another field (rest).
Object(id, prop, rest) == [id |-> id, prop |-> prop, rest |-> rest]

\* The identities of the objects that the running code still refers to.
IdsInUse ==
    {vals.sourceValue.id} \cup
    {calls[i].newValue.id : i \in {j \in 1..Len(calls) :
                                      calls[j].kind = "setValue" /\ calls[j].obj = "sourceValue"}}

\* The identity of a newly created object.
FreshId == CHOOSE id \in 1..NumObjects : id \notin IdsInUse

\* A listener that reads another field of the new value.
Property_Other(newValue) == newValue.rest

\* newValue[propertyName]
Property(newValue) == newValue.prop

\* A copy that holds only the property: { [propertyName]: newValue }.
Spread_OnlyProperty(current, newValue) == Object(FreshId, newValue, None)

\* { ...sourceValue.getValue(), [propertyName]: newValue }: a new object.
Spread(current, newValue) == Object(FreshId, newValue, current.rest)

\* The listener on sourceValue: if the child is still there,
\* childValue.setValue(newValue[propertyName]); else sourceListener.remove().
PropertyDownBody ==
    /\ InBody("propertyDown")
    /\ IF Deref("child")
       THEN /\ CallSetValue("child", Property(TopCall.arg), Calling, "down")
            /\ subs' = subs
       ELSE /\ RemoveItself("sourceValue", PropertyDown)
            /\ vals' = vals
    /\ did' = [op |-> "propertyDown", alive |-> Deref("child")]
    /\ UNCHANGED <<single, ui, held, dead, expectedResultValue, given, tally>>

\* The listener on the child: sourceValue.setValue({...}).
PropertyUpBody ==
    /\ InBody("propertyUp")
    /\ CallSetValue("sourceValue", Spread(vals.sourceValue, TopCall.arg), Calling, "up")
    /\ did' = [op |-> "propertyUp"]
    /\ UNCHANGED <<single, ui, subs, held, dead, expectedResultValue, given, tally>>

\* The objects the caller may pass to sourceValue.setValue: the stored object
\* itself, or a new one.
Passable == {vals.sourceValue} \cup {Object(FreshId, prop, rest) : prop \in Values, rest \in Values}

\* The state when reactiveValueFromPropertyMutable returns: sourceValue may
\* have had listeners before.
InitProperty ==
    /\ NoSingle
    /\ NoUi
    /\ \E prop \in Values, rest \in Values, before \in {<<>>, <<Observer(1)>>} :
          /\ vals = [sourceValue |-> Object(1, prop, rest), child |-> prop]
          /\ subs = [sourceValue |-> Pushed(before, PropertyDown), child |-> <<PropertyUp>>]
    /\ calls = <<>>
    /\ held = {"sourceValue", "child"}
    /\ dead = {}
    /\ expectedResultValue = None
    /\ given = <<>>
    /\ did = [op |-> "new"]
    /\ tally = NewTally("sourceValue", vals.sourceValue)

NextProperty ==
    \/ \E newValue \in Passable : UserSetValue("sourceValue", newValue)
    \/ \E newValue \in Values : UserSetValue("child", newValue)
    \/ Fire
    \/ Finish
    \/ ListenerDone
    \/ ObserverBody
    \/ PropertyDownBody
    \/ PropertyUpBody
    \/ \E o \in {"sourceValue", "child"}, id \in Observers : UserAddListener(o, id)
    \/ \E o \in {"sourceValue", "child"} : Drop(o)
    \/ \E o \in {"sourceValue", "child"} : Collect(o)

SpecProperty == InitProperty /\ [][NextProperty]_vars

----------------------------------------------------------------------------
\* reactiveValueFromCallback(callback, sourceValues)

\* The listener registered for the k-th element of sourceValues.
Forward(k) == [kind |-> "fromCallback", k |-> k]

\* The reactive values the caller may pass as sources.
Sources == {"value1", "value2"}

\* A listener that pushes the result's old value again instead of calling callback.
CallbackResult_Cached == vals.result

\* callback(): the caller's function, which reads the sources' current values.
CallbackResult == given.callback[<<vals.value1, vals.value2>>]

\* The listener on a source: if the result is still there,
\* value.setValue(callback()); else listener.remove().
ForwardBody ==
    /\ InBody("fromCallback")
    /\ IF Deref("result")
       THEN /\ CallSetValue("result", CallbackResult, Calling, "forward")
            /\ subs' = subs
            /\ tally' = [tally EXCEPT !.computes = Count(@),
                                      !.changes = IF CallbackResult # vals.result
                                                  THEN Count(@) ELSE @]
       ELSE /\ RemoveItself(given.sourceValues[TopCall.fn.k], TopCall.fn)
            /\ UNCHANGED <<vals, tally>>
    /\ did' = [op |-> "forward", alive |-> Deref("result"), k |-> TopCall.fn.k]
    /\ UNCHANGED <<single, ui, held, dead, expectedResultValue, given>>

\* The listeners that the constructor's loop registers on the source o.
Forwards(sourceValues, o) ==
    SelectSeq([k \in 1..Len(sourceValues) |-> Forward(k)],
              LAMBDA fn : sourceValues[fn.k] = o)

\* The state when reactiveValueFromCallback returns: the first source may
\* have had listeners before; sourceValues may name one source twice.
InitCallback ==
    /\ NoSingle
    /\ NoUi
    /\ given \in [callback : [Values \X Values -> Values],
                  sourceValues : {<<"value1", "value2">>, <<"value1", "value1">>}]
    /\ \E initial1 \in Values, initial2 \in Values, before \in {<<>>, <<Observer(1)>>} :
          /\ vals = [value1 |-> initial1, value2 |-> initial2,
                     result |-> given.callback[<<initial1, initial2>>]]
          /\ subs = [value1 |-> before \o Forwards(given.sourceValues, "value1"),
                     value2 |-> Forwards(given.sourceValues, "value2"),
                     result |-> <<>>]
    /\ calls = <<>>
    /\ held = {"value1", "value2", "result"}
    /\ dead = {}
    /\ expectedResultValue = None
    /\ did = [op |-> "new"]
    /\ tally = [NewTally("result", vals.result) EXCEPT !.computes = 1]

NextCallback ==
    \/ \E o \in Range(given.sourceValues), newValue \in Values : UserSetValue(o, newValue)
    \/ Fire
    \/ Finish
    \/ ListenerDone
    \/ ObserverBody
    \/ ForwardBody
    \/ \E id \in Observers : UserAddListener("result", id)
    \/ Drop("result")
    \/ \E o \in Sources \cup {"result"} : Collect(o)

SpecCallback == InitCallback /\ [][NextCallback]_vars

----------------------------------------------------------------------------
\* mapReactiveValue(source, map)

\* The listener registered on the source.
MapOnly == [kind |-> "mapOnly"]

\* The source's listener: result.setValue(map(newValue)).
MapOnlyBody ==
    /\ InBody("mapOnly")
    /\ CallSetValue("result", Mapped(TopCall.arg), Calling, "propagation")
    /\ tally' = [tally EXCEPT !.maps = Count(@)]
    /\ did' = [op |-> "mapOnly"]
    /\ UNCHANGED <<single, ui, subs, held, dead, expectedResultValue, given>>

\* The state when mapReactiveValue returns: the source may have had a
\* listener before; nothing is registered on the result.
InitMapOnly ==
    /\ NoSingle
    /\ NoUi
    /\ given \in [map : [Values -> Values]]
    /\ \E initial \in Values, before \in {<<>>, <<Observer(1)>>} :
          /\ vals = [source |-> initial, result |-> given.map[initial]]
          /\ subs = [source |-> Pushed(before, MapOnly), result |-> <<>>]
    /\ calls = <<>>
    /\ held = {"source", "result"}
    /\ dead = {}
    /\ expectedResultValue = None
    /\ did = [op |-> "new"]
    /\ tally = NewTally("source", vals.source)

\* The result is read-only for the caller: it adds listeners to it, and sets
\* only the source.
NextMapOnly ==
    \/ \E newValue \in Values : UserSetValue("source", newValue)
    \/ Fire
    \/ Finish
    \/ ListenerDone
    \/ ObserverBody
    \/ MapOnlyBody
    \/ \E o \in {"source", "result"}, id \in Observers : UserAddListener(o, id)
    \/ \E o \in {"source", "result"} : Drop(o)
    \/ \E o \in {"source", "result"} : Collect(o)

SpecMapOnly == InitMapOnly /\ [][NextMapOnly]_vars

----------------------------------------------------------------------------
\* A listener that throws, on one ReactiveValueImpl.

\* A listener of the caller whose body throws.
Thrower == [kind |-> "thrower"]

\* The body of the throwing listener: neither the loop of setValue nor any
\* other frame catches, so the exception unwinds every call in progress and
\* reaches the caller of the top-level setValue.
ThrowerBody ==
    /\ InBody("thrower")
    /\ calls' = <<>>
    /\ did' = [op |-> "throw"]
    /\ UNCHANGED <<single, ui, vals, subs, held, dead, expectedResultValue, given, tally>>

\* The caller registers the throwing listener: o.addUpdateListener(thrower).
UserAddThrower(o) ==
    /\ Idle
    /\ o \in held
    /\ Thrower \notin Registered
    /\ subs' = [subs EXCEPT ![o] = Pushed(@, Thrower)]
    /\ did' = [op |-> "add"]
    /\ UNCHANGED <<single, ui, vals, calls, held, dead, expectedResultValue, given, tally>>

\* The state after reactiveValueFromInitialValue(initial).
InitThrow ==
    /\ NoSingle
    /\ NoUi
    /\ given = <<>>
    /\ \E initial \in Values : vals = [value |-> initial]
    /\ subs = [value |-> <<>>]
    /\ calls = <<>>
    /\ held = {"value"}
    /\ dead = {}
    /\ expectedResultValue = None
    /\ did = [op |-> "new"]
    /\ tally = NewTally("value", vals.value)

NextThrow ==
    \/ \E newValue \in Values : UserSetValue("value", newValue)
    \/ Fire
    \/ Finish
    \/ ObserverBody
    \/ ThrowerBody
    \/ \E id \in Observers : UserAddListener("value", id)
    \/ UserAddThrower("value")

SpecThrow == InitThrow /\ [][NextThrow]_vars

----------------------------------------------------------------------------
\* reactiveValueFromImmutable(value)

\* noOpUpdateListenerResult: the one subscription object that every
\* registration on an immutable value returns.
NoOpUpdateListenerResult == "noOpUpdateListenerResult"

\* getValue: () => value.
ImmutableGetValue ==
    /\ Idle
    /\ did' = [op |-> "getValue", result |-> vals.immutable]
    /\ UNCHANGED <<single, ui, vals, subs, calls, held, dead, expectedResultValue, given, tally>>

\* addUpdateListener is noOpSetUpdateListener: it ignores the callback and
\* returns noOpUpdateListenerResult.
ImmutableAddUpdateListener(id) ==
    /\ Idle
    /\ held' = held \cup {NoOpUpdateListenerResult}
    /\ did' = [op |-> "add", id |-> id]
    /\ UNCHANGED <<single, ui, vals, subs, calls, dead, expectedResultValue, given, tally>>

\* An onUpdateAndNow that returns the subscription without calling callback.
ImmutableNow_Silent(id) == <<[kind |-> "onUpdateAndNow", id |-> id, before |-> tally.fired[id]]>>

\* The calls in progress when onUpdateAndNow(callback) has called
\* callback(value).
ImmutableNow(id) ==
    <<[kind |-> "onUpdateAndNow", id |-> id, before |-> tally.fired[id]],
      Running(Observer(id), vals.immutable)>>

\* onUpdateAndNow(callback) up to its call of callback; the tally of
\* invocations is bounded.
ImmutableOnUpdateAndNow(id) ==
    /\ Idle
    /\ tally.fired[id] < MaxCount
    /\ calls' = ImmutableNow(id)
    /\ did' = [op |-> "onUpdateAndNow", id |-> id]
    /\ UNCHANGED <<single, ui, vals, subs, held, dead, expectedResultValue, given, tally>>

\* The end of onUpdateAndNow: return noOpUpdateListenerResult.
ImmutableOnUpdateAndNowReturn ==
    /\ calls # <<>>
    /\ TopCall.kind = "onUpdateAndNow"
    /\ calls' = PopCall
    /\ held' = held \cup {NoOpUpdateListenerResult}
    /\ did' = [op |-> "onUpdateAndNowReturn", id |-> TopCall.id, before |-> TopCall.before]
    /\ UNCHANGED <<single, ui, vals, subs, dead, expectedResultValue, given, tally>>

\* remove() { } of noOpUpdateListenerResult.
ImmutableRemove ==
    /\ Idle
    /\ NoOpUpdateListenerResult \in held
    /\ did' = [op |-> "remove"]
    /\ UNCHANGED <<single, ui, vals, subs, calls, held, dead, expectedResultValue, given, tally>>

\* The state after reactiveValueFromImmutable(value): the object has no
\* listener array; the tally counts the invocations of each callback since
\* the construction.
InitImmutable ==
    /\ NoSingle
    /\ NoUi
    /\ given \in [value : Values]
    /\ vals = [immutable |-> given.value]
    /\ subs = [immutable |-> <<>>]
    /\ calls = <<>>
    /\ held = {"immutable"}
    /\ dead = {}
    /\ expectedResultValue = None
    /\ did = [op |-> "new"]
    /\ tally = NewTally("immutable", given.value)

NextImmutable ==
    \/ ImmutableGetValue
    \/ \E id \in Observers : ImmutableAddUpdateListener(id)
    \/ \E id \in Observers : ImmutableOnUpdateAndNow(id)
    \/ ObserverBody
    \/ ImmutableOnUpdateAndNowReturn
    \/ ImmutableRemove

SpecImmutable == InitImmutable /\ [][NextImmutable]_vars

----------------------------------------------------------------------------
\* TextTool: the text input, flushInput, startTextInput, setEnabled,
\* onPointerDown. Each event handler runs to completion before the next event
\* is delivered; the input elements are numbered in the order of creation.

MaxInputs == 3

Inputs == 1..MaxInputs

\* A flushInput that forgets to clear textInputElem.
Flushed_Kept(t) == t

\* this.textInputElem = null
Flushed(t) == [t EXCEPT !.textInputElem = None]

\* flushInput(): the tool, the browser and whether the call threw. When the
\* input has the focus, remove() is browser dependent: either it just removes
\* the element, or (blurs) it first dispatches blur synchronously, whose
\* handler runs flushInput to its end, after which the outer remove() finds
\* the element gone and throws, so that the outer call ends there.
FlushInput(blurs) ==
    IF tool.textInputElem # None /\ tool.textTargetPosition # None
    THEN [tool |-> Flushed(tool),
          env |-> [env EXCEPT !.overlay = @ \ {tool.textInputElem},
                              !.focused = IF @ = tool.textInputElem THEN None ELSE @,
                              !.dispatched[tool.textInputElem] = @ + 1],
          threw |-> blurs /\ env.focused = tool.textInputElem]
    ELSE [tool |-> tool, env |-> env, threw |-> FALSE]

\* onPointerDown with one pointer that is no eraser: startTextInput, that is
\* flushInput, a new input element put into the overlay, and the focus timer.
\* The canvas positions are numbered like the inputs.
OnPointerDown(blurs) ==
    /\ env.created < MaxInputs
    /\ LET flush == FlushInput(blurs)
           elem == env.created + 1
       IN IF flush.threw
          THEN /\ tool' = flush.tool
               /\ env' = [flush.env EXCEPT !.last = [op |-> "pointerDown", threw |-> TRUE]]
          ELSE /\ tool' = [flush.tool EXCEPT !.textInputElem = elem,
                                             !.textTargetPosition = elem]
               /\ env' = [flush.env EXCEPT !.created = elem,
                                           !.overlay = {elem},
                                           !.timers = @ + 1,
                                           !.last = [op |-> "pointerDown", threw |-> FALSE]]
    /\ UNCHANGED <<single, wired, svg, widget>>

\* onPointerDown with an eraser or with several pointers: return false.
OnPointerDownIgnored ==
    /\ env' = [env EXCEPT !.last = [op |-> "pointerIgnored", threw |-> FALSE]]
    /\ UNCHANGED <<single, wired, svg, tool, widget>>

\* The 100 ms timer of startTextInput: this.textInputElem!.focus(). The focus
\* moves only to an element that is displayed.
FocusTimer ==
    /\ env.timers > 0
    /\ env' = [env EXCEPT !.timers = @ - 1,
                          !.focused = IF tool.textInputElem # None /\ tool.display = "block"
                                      THEN tool.textInputElem ELSE @,
                          !.last = [op |-> "focusTimer", threw |-> tool.textInputElem = None]]
    /\ UNCHANGED <<single, wired, svg, tool, widget>>

\* The user moves the focus into the displayed input.
UserFocus ==
    /\ env.overlay # {}
    /\ tool.display = "block"
    /\ \E elem \in env.overlay :
          /\ env.focused # elem
          /\ env' = [env EXCEPT !.focused = elem,
                                !.last = [op |-> "focus", threw |-> FALSE]]
    /\ UNCHANGED <<single, wired, svg, tool, widget>>

\* The focused input loses the focus: onblur, that is flushInput.
OnBlur ==
    /\ env.focused # None
    /\ tool' = FlushInput(FALSE).tool
    /\ env' = [FlushInput(FALSE).env EXCEPT !.focused = None,
                                            !.last = [op |-> "blur", threw |-> FALSE]]
    /\ UNCHANGED <<single, wired, svg, widget>>

\* setEnabled(enabled): flushInput when disabling, then the display of the
\* overlay.
SetEnabled(enabled, blurs) ==
    /\ LET flush == IF enabled THEN [tool |-> tool, env |-> env, threw |-> FALSE]
                    ELSE FlushInput(blurs)
       IN /\ tool' = IF flush.threw THEN flush.tool
                     ELSE [flush.tool EXCEPT !.display = IF enabled THEN "block" ELSE "none"]
          /\ env' = [flush.env EXCEPT !.last = [op |-> "setEnabled", enabled |-> enabled,
                                                threw |-> flush.threw]]
    /\ UNCHANGED <<single, wired, svg, widget>>

\* The state after the constructor: no input, the overlay empty.
InitTextTool ==
    /\ NoSingle
    /\ NoWired
    /\ svg = <<>>
    /\ widget = <<>>
    /\ tool = [textInputElem |-> None, textTargetPosition |-> None, display |-> "block"]
    /\ env = [timers |-> 0, focused |-> None, overlay |-> {}, created |-> 0,
              dispatched |-> [elem \in Inputs |-> 0],
              last |-> [op |-> "new", threw |-> FALSE]]

NextTextTool ==
    \/ \E blurs \in BOOLEAN : OnPointerDown(blurs)
    \/ OnPointerDownIgnored
    \/ FocusTimer
    \/ UserFocus
    \/ OnBlur
    \/ \E enabled \in BOOLEAN, blurs \in BOOLEAN : SetEnabled(enabled, blurs)

SpecTextTool == InitTextTool /\ [][NextTextTool]_vars

----------------------------------------------------------------------------
\* InsertImageWidget: the onchange handler of imageFileInput. The handler is
\* an async function: it runs up to its await when the event is delivered and
\* its rest runs when the promise of fileToBase64 is settled; the promises of
\* several reads are settled in any order.

NumFiles == 2
MaxReads == 3

Files == 1..NumFiles
Reads == 1..MaxReads

\* fileToBase64(image) of a read that succeeds: every file has its own data.
Base64(file) == file

\* The status view at the end of the handler when the read was rejected:
\* the catch block has written imageLoadError(e), the else branch then writes
\* the empty string.
StatusAfterError == ""

\* onchange with no file chosen: the preview is hidden and the button
\* disabled.
OnChangeEmpty ==
    /\ widget' = [widget EXCEPT !.value = None,
                                !.previewDisplay = "none",
                                !.submitDisabled = TRUE]
    /\ env' = [env EXCEPT !.chosen = None, !.last = [op |-> "changeEmpty"]]
    /\ UNCHANGED <<single, wired, svg, tool>>

\* onchange with a file chosen, up to the await: the preview is displayed
\* and fileToBase64(image) is called.
OnChange(file) ==
    /\ env.started < MaxReads
    /\ widget' = [widget EXCEPT !.value = file, !.previewDisplay = "block"]
    /\ env' = [env EXCEPT !.started = @ + 1,
                          !.pending = @ \cup {env.started + 1},
                          !.image[env.started + 1] = file,
                          !.chosen = env.started + 1,
                          !.last = [op |-> "change"]]
    /\ UNCHANGED <<single, wired, svg, tool>>

\* The rest of the handler of the read when its promise is fulfilled.
Fulfilled(read) ==
    /\ read \in env.pending
    /\ widget' = [widget EXCEPT !.imageBase64URL = Base64(env.image[read]),
                                !.previewSrc = Base64(env.image[read]),
                                !.submitDisabled = FALSE,
                                !.statusView = "imageSize"]
    /\ env' = [env EXCEPT !.pending = @ \ {read},
                          !.outcome[read] = "fulfilled",
                          !.last = [op |-> "fulfilled"]]
    /\ UNCHANGED <<single, wired, svg, tool>>

\* The rest of the handler of the read when its promise is rejected.
Rejected(read) ==
    /\ read \in env.pending
    /\ widget' = [widget EXCEPT !.imageBase64URL = None,
                                !.submitDisabled = TRUE,
                                !.statusView = StatusAfterError]
    /\ env' = [env EXCEPT !.pending = @ \ {read},
                          !.outcome[read] = "rejected",
                          !.last = [op |-> "rejected"]]
    /\ UNCHANGED <<single, wired, svg, tool>>

\* The state when the dropdown has been shown with no image selected in the
\* editor: updateInputs has reset the inputs, imageBase64URL was never
\* assigned.
InitInsertImage ==
    /\ NoSingle
    /\ NoWired
    /\ svg = <<>>
    /\ tool = <<>>
    /\ widget = [value |-> None, previewDisplay |-> "none", previewSrc |-> None,
                 submitDisabled |-> TRUE, statusView |-> "", imageBase64URL |-> None]
    /\ env = [started |-> 0, pending |-> {}, chosen |-> None,
              image |-> [read \in Reads |-> None],
              outcome |-> [read \in Reads |-> "none"],
              last |-> [op |-> "new"]]

NextInsertImage ==
    \/ OnChangeEmpty
    \/ \E file \in Files : OnChange(file)
    \/ \E read \in Reads : Fulfilled(read)
    \/ \E read \in Reads : Rejected(read)

SpecInsertImage == InitInsertImage /\ [][NextInsertImage]_vars

----------------------------------------------------------------------------
\* ToolbarWidget: the button, the dropdown and the handlers of ToolEnabled and
\* ToolDisabled. The class lists are modelled by one flag for each class the
\* code tests or changes. Events are dispatched synchronously: the handlers of
\* every widget have run when setEnabled returns.

NumWidgets == 2
NumTools == 2

Widgets == 1..NumWidgets
Tools == 1..NumTools

\* updateSelected(selected) on the widget record wd
UpdateSelected(wd, selected) ==
    IF wd.selected = selected THEN wd
    ELSE [wd EXCEPT !.selected = selected,
                    !.ariaSelected = IF selected THEN "true" ELSE "false"]

\* isDropdownVisible()
IsDropdownVisible(wd) == ~wd.hidden

\* setDropdownVisible(visible) on the widget record wd; the announcement is
\* kept in the record
SetDropdownVisible(wd, visible) ==
    IF wd.dropdownVisible = visible THEN wd
    ELSE IF visible
         THEN [wd EXCEPT !.hidden = FALSE, !.dropdownVisible = TRUE,
                         !.announced = "dropdownShown"]
         ELSE [wd EXCEPT !.hidden = TRUE, !.dropdownVisible = FALSE,
                         !.announced = "dropdownHidden"]

\* The handler of ToolEnabled of the widget wd, for the tool t.
OnToolEnabled(wd, t) ==
    IF t = wd.targetTool THEN UpdateSelected(wd, TRUE) ELSE wd

\* A handler of ToolDisabled that leaves the dropdown as it is.
OnToolDisabled_KeepsDropdown(wd, t) ==
    IF t = wd.targetTool THEN UpdateSelected(wd, FALSE) ELSE wd

\* The handler of ToolDisabled of the widget wd, for the tool t.
OnToolDisabled(wd, t) ==
    IF t = wd.targetTool
    THEN SetDropdownVisible(UpdateSelected(wd, FALSE), FALSE)
    ELSE wd

\* The widgets after the event of tool t was dispatched to the handlers the
\* constructors registered; a handler changes its own widget only.
Dispatched(ws, t, enabled) ==
    [w \in Widgets |-> IF enabled THEN OnToolEnabled(ws[w], t)
                                  ELSE OnToolDisabled(ws[w], t)]

\* targetTool.setEnabled(enabled) of tool t: the flag, then the event. A call
\* that does not change the flag may or may not emit the event (emits).
SetToolEnabled(ws, t, enabled, emits) ==
    IF tool[t] # enabled \/ emits THEN Dispatched(ws, t, enabled) ELSE ws

\* addTo(parent), once for each widget; fills is the result of fillDropdown.
AddTo(w, fills) ==
    /\ ~widget[w].added
    /\ widget' = [widget EXCEPT ![w] =
           SetDropdownVisible(
               [UpdateSelected(widget[w], tool[widget[w].targetTool])
                   EXCEPT !.hasDropdown = fills, !.added = TRUE],
               FALSE)]
    /\ env' = [last |-> [op |-> "addTo", widget |-> w]]
    /\ UNCHANGED <<single, wired, svg, tool>>

\* handleClick() of a widget that was added to the toolbar.
HandleClick(w) ==
    /\ widget[w].added
    /\ LET wd == widget[w]
           t == wd.targetTool
       IN IF wd.hasDropdown
          THEN IF ~tool[t]
               THEN /\ tool' = [tool EXCEPT ![t] = TRUE]
                    /\ widget' = SetToolEnabled(widget, t, TRUE, TRUE)
               ELSE /\ tool' = tool
                    /\ widget' = [widget EXCEPT ![w] =
                           SetDropdownVisible(wd, ~IsDropdownVisible(wd))]
          ELSE /\ tool' = [tool EXCEPT ![t] = ~tool[t]]
               /\ widget' = SetToolEnabled(widget, t, ~tool[t], TRUE)
    /\ env' = [last |-> [op |-> "click", widget |-> w]]
    /\ UNCHANGED <<single, wired, svg>>

\* Another part of the editor (the tool controller, a keyboard shortcut)
\* calls setEnabled(enabled) of tool t.
ToolSetEnabled(t, enabled, emits) ==
    /\ tool' = [tool EXCEPT ![t] = enabled]
    /\ widget' = SetToolEnabled(widget, t, enabled, emits)
    /\ env' = [last |-> [op |-> "setEnabled", tool |-> t, enabled |-> enabled]]
    /\ UNCHANGED <<single, wired, svg>>

\* The state after the constructors: every widget has a target tool, its
\* dropdown container is hidden and it is not yet added to the toolbar.
InitToolbarWidget ==
    /\ NoSingle
    /\ NoWired
    /\ svg = <<>>
    /\ tool \in [Tools -> BOOLEAN]
    /\ \E targets \in [Widgets -> Tools] :
          widget = [w \in Widgets |->
                      [targetTool |-> targets[w], hasDropdown |-> FALSE, added |-> FALSE,
                       selected |-> FALSE, ariaSelected |-> "unset",
                       dropdownVisible |-> FALSE, hidden |-> TRUE, announced |-> "none"]]
    /\ env = [last |-> [op |-> "new"]]

NextToolbarWidget ==
    \/ \E w \in Widgets, fills \in BOOLEAN : AddTo(w, fills)
    \/ \E w \in Widgets : HandleClick(w)
    \/ \E t \in Tools, enabled \in BOOLEAN, emits \in BOOLEAN : ToolSetEnabled(t, enabled, emits)

SpecToolbarWidget == InitToolbarWidget /\ [][NextToolbarWidget]_vars

----------------------------------------------------------------------------
\* HTMLToolbar: the Undo and Redo buttons of addUndoRedoButtons. The history
\* of the editor is the environment: it holds two stacks and reports their
\* sizes in an UndoRedoStackUpdated event, dispatched synchronously, whenever
\* one of them changes. A disabled button delivers no click.

NumToolbars == 2
MaxStackSize == 3

Toolbars == 1..NumToolbars
StackSizes == 0..MaxStackSize

\* A handler that takes each button's state from the other stack.
OnUndoRedoStackUpdated_Swapped(tb, event) ==
    [tb EXCEPT !.undoDisabled = (event.redoStackSize = 0),
               !.redoDisabled = (event.undoStackSize = 0)]

\* The handler of UndoRedoStackUpdated of the toolbar record tb.
OnUndoRedoStackUpdated(tb, event) ==
    [tb EXCEPT !.undoDisabled = (event.undoStackSize = 0),
               !.redoDisabled = (event.redoStackSize = 0)]

\* The toolbars and the editor after the history changed to the given sizes:
\* the handler of every toolbar that has its buttons has run; env.seen holds
\* the toolbars whose handler has run, env.reported the event it was given.
StackUpdated(undoStackSize, redoStackSize, op) ==
    LET event == [undoStackSize |-> undoStackSize, redoStackSize |-> redoStackSize]
    IN /\ widget' = [t \in Toolbars |->
                        IF widget[t].added THEN OnUndoRedoStackUpdated(widget[t], event)
                        ELSE widget[t]]
       /\ env' = [env EXCEPT !.undoStackSize = undoStackSize,
                             !.redoStackSize = redoStackSize,
                             !.reported = [t \in Toolbars |->
                                             IF widget[t].added THEN event ELSE @[t]],
                             !.seen = {t \in Toolbars : widget[t].added},
                             !.last = op]

\* addDefaultActionButtons(), that is addUndoRedoButtons(): two disabled
\* buttons and the handler.
AddDefaultActionButtons(t) ==
    /\ ~widget[t].added
    /\ widget' = [widget EXCEPT ![t] =
                     [added |-> TRUE, undoDisabled |-> TRUE, redoDisabled |-> TRUE]]
    /\ env' = [env EXCEPT !.seen = @ \ {t},
                          !.last = [op |-> "addDefaultActionButtons", toolbar |-> t]]
    /\ UNCHANGED <<single, wired, svg, tool>>

\* A click on the Undo button: editor.history.undo().
ClickUndo(t) ==
    /\ widget[t].added
    /\ ~widget[t].undoDisabled
    /\ IF env.undoStackSize > 0
       THEN StackUpdated(env.undoStackSize - 1, env.redoStackSize + 1,
                         [op |-> "undo", toolbar |-> t])
       ELSE /\ env' = [env EXCEPT !.last = [op |-> "undo", toolbar |-> t]]
            /\ widget' = widget
    /\ UNCHANGED <<single, wired, svg, tool>>

\* A click on the Redo button: editor.history.redo().
ClickRedo(t) ==
    /\ widget[t].added
    /\ ~widget[t].redoDisabled
    /\ IF env.redoStackSize > 0
       THEN StackUpdated(env.undoStackSize + 1, env.redoStackSize - 1,
                         [op |-> "redo", toolbar |-> t])
       ELSE /\ env' = [env EXCEPT !.last = [op |-> "redo", toolbar |-> t]]
            /\ widget' = widget
    /\ UNCHANGED <<single, wired, svg, tool>>

\* The editor dispatches a new command: it is pushed on the undo stack and
\* the redo stack is cleared.
DispatchCommand ==
    /\ env.undoStackSize < MaxStackSize
    /\ StackUpdated(env.undoStackSize + 1, 0, [op |-> "dispatch"])
    /\ UNCHANGED <<single, wired, svg, tool>>

\* Undo or redo by a keyboard shortcut of the editor, without the toolbar.
ShortcutUndoRedo(undo) ==
    /\ IF undo THEN env.undoStackSize > 0 ELSE env.redoStackSize > 0
    /\ IF undo
       THEN StackUpdated(env.undoStackSize - 1, env.redoStackSize + 1, [op |-> "shortcut"])
       ELSE StackUpdated(env.undoStackSize + 1, env.redoStackSize - 1, [op |-> "shortcut"])
    /\ UNCHANGED <<single, wired, svg, tool>>

\* The state after the constructors of the toolbars, the history empty.
InitToolbar ==
    /\ NoSingle
    /\ NoWired
    /\ svg = <<>>
    /\ tool = <<>>
    /\ widget = [t \in Toolbars |->
                   [added |-> FALSE, undoDisabled |-> TRUE, redoDisabled |-> TRUE]]
    /\ env = [undoStackSize |-> 0, redoStackSize |-> 0,
              reported |-> [t \in Toolbars |-> [undoStackSize |-> 0, redoStackSize |-> 0]],
              seen |-> {},
              last |-> [op |-> "new"]]

NextToolbar ==
    \/ \E t \in Toolbars : AddDefaultActionButtons(t)
    \/ \E t \in Toolbars : ClickUndo(t)
    \/ \E t \in Toolbars : ClickRedo(t)
    \/ DispatchCommand
    \/ \E undo \in BOOLEAN : ShortcutUndoRedo(undo)

SpecToolbar == InitToolbar /\ [][NextToolbar]_vars

----------------------------------------------------------------------------
\* SVG export: toSVGInternal, editorImageToSVGSync, editorImageToSVGAsync.
\* The image is the environment: its import/export viewport has a transform
\* and its autoresize flag may change while an asynchronous export renders.
\* An export is numbered like the element it creates. The render function of
\* the asynchronous export runs up to its await when toSVGInternal calls it,
\* and its rest runs when renderAllAsync has rendered every component.

MaxExports == 2
NumTransforms == 2
NumComponents == 2

Exports == 1..MaxExports
Transforms == 1..NumTransforms

\* Mat33.identity
Identity == 1

\* toSVGInternal up to the call of the render function: the temporary clone
\* of the viewport, the element and the renderer, origTransform, and the
\* clone's transform reset to the identity.
Begun(e, mode) ==
    [mode |-> mode, phase |-> "rendering", element |-> e,
     clone |-> Identity, origTransform |-> env.transform,
     rendered |-> {}, components |-> 0,
     autoresizeClass |-> FALSE, sizedWith |-> None,
     completed |-> None, returned |-> None, resolved |-> None,
     log |-> <<"clone", "reset">>]

\* The renderer draws n components with the transform of its viewport.
Rendered(x, n) ==
    [x EXCEPT !.rendered = @ \cup {x.clone}, !.components = @ + n,
              !.log = Append(@, "render")]

\* A completion callback that applies the size before it restores the
\* transform.
OnComplete_SizeFirst(x) ==
    [x EXCEPT !.sizedWith = x.clone,
              !.clone = x.origTransform,
              !.autoresizeClass = env.autoresize,
              !.completed = x.element,
              !.log = Append(@, "complete")]

\* The completion callback: the transform is restored, the class is set from
\* image.getAutoresizeEnabled(), the size is applied to the element (with the
\* viewport as it then is), and the element is returned.
OnComplete(x) ==
    LET restored == [x EXCEPT !.clone = x.origTransform]
    IN [restored EXCEPT !.autoresizeClass = env.autoresize,
                        !.sizedWith = restored.clone,
                        !.completed = x.element,
                        !.log = Append(@, "complete")]

\* return result, at the end of toSVGInternal
Returned_Element(x) ==
    [x EXCEPT !.returned = x.element, !.log = Append(@, "return")]

\* editorImageToSVGSync(image, options): renderAll, onComplete, return. The
\* flag of the image at the completion is recorded in env.
EditorImageToSVGSync(e) ==
    /\ svg[e].phase = "none"
    /\ \A d \in Exports : d < e => svg[d].phase # "none"
    /\ svg' = [svg EXCEPT ![e] =
           [Returned_Element(OnComplete(Rendered(Begun(e, "sync"), NumComponents)))
               EXCEPT !.phase = "done"]]
    /\ env' = [env EXCEPT !.atCompletion[e] = env.autoresize,
                          !.last = [op |-> "sync", export |-> e]]
    /\ UNCHANGED <<single, wired, tool, widget>>

\* editorImageToSVGAsync(image, preRenderComponent, options), up to the await
\* of renderAllAsync: toSVGInternal returns the element, the promise is
\* pending.
EditorImageToSVGAsync(e) ==
    /\ svg[e].phase = "none"
    /\ \A d \in Exports : d < e => svg[d].phase # "none"
    /\ svg' = [svg EXCEPT ![e] = Returned_Element(Begun(e, "async"))]
    /\ env' = [env EXCEPT !.last = [op |-> "async", export |-> e]]
    /\ UNCHANGED <<single, wired, tool, widget>>

\* renderAllAsync renders its next component.
RenderComponent(e) ==
    /\ svg[e].phase = "rendering"
    /\ svg[e].components < NumComponents
    /\ svg' = [svg EXCEPT ![e] = Rendered(svg[e], 1)]
    /\ env' = [env EXCEPT !.last = [op |-> "render", export |-> e]]
    /\ UNCHANGED <<single, wired, tool, widget>>

\* The promise of renderAllAsync is fulfilled: onComplete(), resolve(result).
RenderAllAsyncDone(e) ==
    /\ svg[e].phase = "rendering"
    /\ svg[e].components = NumComponents
    /\ svg' = [svg EXCEPT ![e] =
           [OnComplete(svg[e]) EXCEPT !.resolved = OnComplete(svg[e]).completed,
                                      !.log = Append(@, "resolve"),
                                      !.phase = "done"]]
    /\ env' = [env EXCEPT !.atCompletion[e] = env.autoresize,
                          !.last = [op |-> "asyncDone", export |-> e]]
    /\ UNCHANGED <<single, wired, tool, widget>>

\* The editor changes the autoresize flag of the image.
SetAutoresizeEnabled(autoresize) ==
    /\ env.autoresize # autoresize
    /\ env' = [env EXCEPT !.autoresize = autoresize, !.last = [op |-> "setAutoresize"]]
    /\ UNCHANGED <<single, wired, tool, widget, svg>>

\* The editor changes the import/export viewport of the image.
SetImportExportTransform(transform) ==
    /\ env.transform # transform
    /\ env' = [env EXCEPT !.transform = transform, !.last = [op |-> "setTransform"]]
    /\ UNCHANGED <<single, wired, tool, widget, svg>>

\* An image with any viewport transform and flag; no export was started.
InitExport ==
    /\ NoSingle
    /\ NoWired
    /\ tool = <<>>
    /\ widget = <<>>
    /\ \E transform \in Transforms, autoresize \in BOOLEAN :
          env = [transform |-> transform, autoresize |-> autoresize,
                 atCompletion |-> [e \in Exports |-> FALSE],
                 last |-> [op |-> "new"]]
    /\ svg = [e \in Exports |->
                [mode |-> "none", phase |-> "none", element |-> None,
                 clone |-> None, origTransform |-> None,
                 rendered |-> {}, components |-> 0,
                 autoresizeClass |-> FALSE, sizedWith |-> None,
                 completed |-> None, returned |-> None, resolved |-> None,
                 log |-> <<>>]]

NextExport ==
    \/ \E e \in Exports : EditorImageToSVGSync(e)
    \/ \E e \in Exports : EditorImageToSVGAsync(e)
    \/ \E e \in Exports : RenderComponent(e)
    \/ \E e \in Exports : RenderAllAsyncDone(e)
    \/ \E autoresize \in BOOLEAN : SetAutoresizeEnabled(autoresize)
    \/ \E transform \in Transforms : SetImportExportTransform(transform)

SpecExport == InitExport /\ [][NextExport]_vars

----------------------------------------------------------------------------
\* A top-level call has just returned.
Returned == Idle /\ did.op \in {"setValue", "setValueReturn"}

\* inverseMap is a true inverse of map.
IsInverse ==
    \A x \in Values : given.inverseMap[given.map[x]] = x /\ given.map[given.inverseMap[x]] = x

ObserversOf(o) == {id \in Observers : Observer(id) \in Range(subs[o])}

\* C11: with a true inverse the result starts at map(source.getValue()); when
\* a top-level setValue on the source or on the result has returned, the
\* result is map(source) and the source is inverseMap(result); and if the
\* call changed the source, every other listener of the source has been
\* invoked exactly once (no second round trip).
C11_MapMutableRoundTrip ==
    IsInverse =>
        /\ did.op = "new" => vals.result = given.map[vals.source]
        /\ Returned =>
              /\ vals.result = given.map[vals.source]
              /\ vals.source = given.inverseMap[vals.result]
              /\ vals.source # tally.before.source =>
                    \A id \in ObserversOf("source") : tally.fired[id] = 1

\* With map and inverseMap swapping the two values, a top-level setValue on
\* the result has changed the source and notified a listener of the source.
C11_Witness ==
    /\ IsInverse /\ \E x \in Values : given.map[x] # x
    /\ Returned /\ tally.obj = "result"
    /\ vals.source # tally.before.source
    /\ \E id \in ObserversOf("source") : tally.fired[id] = 1

\* C12: whatever map and inverseMap are, one top-level setValue on the source
\* or on the result calls map at most once and inverseMap at most once, and
\* it returns.
C12_MapMutableTerminates ==
    /\ [](tally.maps <= 1 /\ tally.inverses <= 1)
    /\ [](~Idle => <>Idle)

\* With an inverseMap that is no inverse of map, a top-level setValue on the
\* result has called inverseMap and map and has returned, leaving the result
\* at another value than the one set.
C12_Witness ==
    /\ ~IsInverse
    /\ Returned /\ tally.obj = "result"
    /\ tally.inverses = 1 /\ tally.maps = 1
    /\ vals.result # tally.arg

\* C13 as claimed: the result's listener skips inverseMap exactly for the
\* updates of the result made by the source-to-result propagation.
C13_Original ==
    did.op = "mapUp" => (did.echo <=> did.origin = "propagation")

\* C13 as amended: the result's listener skips inverseMap for every update
\* made by the source-to-result propagation, and for an external update
\* whose value is the last value the propagation pushed; with a true inverse
\* no external update is skipped.
C13_EchoIsByValue ==
    did.op = "mapUp" =>
        /\ did.origin = "propagation" => did.echo
        /\ (IsInverse /\ did.origin = "external") => ~did.echo

\* The result's listener has applied inverseMap to an external update.
C13_Witness ==
    did.op = "mapUp" /\ did.origin = "external" /\ ~did.echo /\ ~IsInverse

\* C14: when a top-level child.setValue(c) that changed the child has
\* returned, the property of the parent's value is c and the other field of
\* the parent's value is what it was before the call.
C14_ChildUpdateCopiesParent ==
    (Returned /\ tally.obj = "child" /\ tally.arg # tally.before.child) =>
        /\ vals.sourceValue.prop = tally.arg
        /\ vals.sourceValue.rest = tally.before.sourceValue.rest

\* A top-level child.setValue(c) has changed the child and has returned, and
\* the parent's value is another object than before.
C14_Witness ==
    /\ Returned /\ tally.obj = "child" /\ tally.arg # tally.before.child
    /\ vals.child = tally.arg
    /\ vals.sourceValue.id # tally.before.sourceValue.id

\* C15: while the child is alive, initially and whenever no call is in
\* progress (so after every top-level setValue on the parent or the child),
\* the child's value is the property of the parent's value.
C15_ChildTracksProperty ==
    (Idle /\ "child" \notin dead) => vals.child = vals.sourceValue.prop

\* A top-level setValue on the parent has changed the child and has returned.
C15_Witness ==
    /\ Returned /\ tally.obj = "sourceValue"
    /\ "child" \notin dead
    /\ vals.child # tally.before.child
    /\ vals.child = vals.sourceValue.prop

\* C16: while the value made by reactiveValueFromCallback has not been
\* collected, it holds callback() evaluated over the current values of the
\* sources, when it is constructed and whenever no call is in progress (so
\* after every top-level setValue on any source).
C16_CallbackResultIsCurrent ==
    (Idle /\ "result" \notin dead)
        => vals.result = given.callback[<<vals.value1, vals.value2>>]

\* A top-level setValue on a source has returned and changed the live result.
C16_Witness ==
    /\ Returned
    /\ tally.obj \in Sources
    /\ "result" \notin dead
    /\ vals.result # tally.before.result
    /\ vals.result = given.callback[<<vals.value1, vals.value2>>]

C18_MapOnlyOneWay ==
    /\ [](Idle => vals.result = given.map[vals.source])
    /\ [][/\ vals'.source # vals.source => (Idle /\ did'.op = "setValue")
          /\ subs'.source # subs.source => (did'.op = "add" /\ subs'.result = subs.result)
          /\ (subs'.result # subs.result \/ (calls # <<>> /\ TopCall.kind = "listener" /\ ByLoop.obj = "result"))
                => (vals'.source = vals.source /\ subs'.source = subs.source)
         ]_vars

\* A top-level source.setValue has returned: it changed the result and a
\* listener of the result was invoked.
C18_Witness ==
    /\ Returned
    /\ tally.obj = "source"
    /\ vals.result # tally.before.result
    /\ vals.result = given.map[vals.source]
    /\ \E id \in ObserversOf("result") : tally.fired[id] = 1

\* C20: for the value made by mapReactiveValueMutable, the listeners alone do
\* not keep the result reachable from its source, and when the result has been
\* collected and a setValue that notified the source's listeners has
\* returned, the source's forwarding listener is no longer registered.
C20_ResultNotRetained ==
    /\ "result" \notin ReachableFrom({"source"})
    /\ (Idle /\ did.op = "setValueReturn" /\ tally.obj = "source" /\ "result" \in dead)
          => MapDown \notin Range(subs.source)

\* C21: in reactiveValueFromPropertyMutable neither side is retained by a
\* listener of the other: the child is not reachable from the parent through
\* the parent's listeners, and the parent is not reachable from the child
\* through the child's listeners.
C21_NeitherSideRetained ==
    /\ "child" \notin ReachableFrom({"sourceValue"})
    /\ "sourceValue" \notin ReachableFrom({"child"})

\* C22: when a listener has thrown during the notification pass of a
\* setValue, every listener registered after it has still been invoked once
\* in that pass.
C22_ThrowSkipsNoListener ==
    (Idle /\ did.op = "throw") =>
        \A i \in DOMAIN subs.value, j \in DOMAIN subs.value :
            (subs.value[i] = Thrower /\ i < j) => tally.fired[subs.value[j].id] = 1

\* C23: for reactiveValueFromImmutable(v), getValue returns v in every state;
\* addUpdateListener and remove() change nothing and start no call, so a
\* callback is invoked only inside onUpdateAndNow; a callback that is invoked
\* receives v; and when onUpdateAndNow(cb) returns, cb has been invoked
\* exactly once since the call began.
C23_ImmutableNeverChanges ==
    /\ [](vals.immutable = given.value /\ subs.immutable = <<>>)
    /\ [][/\ did'.op = "getValue" => did'.result = given.value
          /\ did'.op \in {"add", "remove"} =>
                (calls' = <<>> /\ UNCHANGED <<vals, subs, tally>>)
          /\ tally' # tally =>
                /\ Len(calls) = 2
                /\ calls[1].kind = "onUpdateAndNow"
                /\ TopCall.fn = Observer(calls[1].id)
                /\ TopCall.arg = given.value
                /\ tally' = [tally EXCEPT !.fired[calls[1].id] = calls[1].before + 1,
                                          !.last[calls[1].id] = given.value]
          /\ did'.op = "onUpdateAndNowReturn" =>
                tally'.fired[did'.id] = did'.before + 1
         ]_vars

\* onUpdateAndNow(cb) has returned for a callback that was also passed to
\* addUpdateListener, and remove() has been called since: cb was invoked once.
C23_Witness ==
    /\ Idle
    /\ did.op = "remove"
    /\ \E id \in Observers :
          /\ tally.fired[id] = 1
          /\ \A other \in Observers \ {id} : tally.fired[other] = 0

\* C24: getValue() of a ReactiveValueImpl is the constructor's argument until
\* the first setValue call and then the argument of the setValue call invoked
\* last, top-level or nested: every setValue step leaves its argument stored,
\* no other step (adding or removing a listener, invoking one, returning)
\* changes the stored value, and a setValue in progress after which no other
\* setValue stored a value still sees its own argument stored.
C24_GetValueIsLastSetValue ==
    /\ [](\A i \in Loops : ~stack[i].dirty => value = stack[i].newValue)
    /\ [][IF ev'.op = "setValue" THEN value' = ev'.arg ELSE value' = value]_vars

\* A listener has just called setValue with a new value while the loop of an
\* outer setValue with another argument is in progress.
C24_Witness ==
    /\ ev.op = "setValue"
    /\ ~ev.same
    /\ Len(stack) >= 3
    /\ value = ev.arg
    /\ stack[1].kind = "setValue"
    /\ stack[1].newValue # value

\* C25: when a top-level sourceValue.setValue(p) that changes the tracked
\* property has returned, the parent's stored value is p itself and every
\* listener of the caller on the parent has been invoked exactly once.
C25_ParentChangesOnce ==
    (/\ Returned
     /\ tally.obj = "sourceValue"
     /\ tally.arg.prop # tally.before.sourceValue.prop)
        => /\ vals.sourceValue = tally.arg
           /\ \A id \in ObserversOf("sourceValue") : tally.fired[id] = 1

C27_FocusTimerFindsInput ==
    env.last.op = "focusTimer" => ~env.last.threw

\* C28: in TextTool the overlay holds at most one input, which is
\* textInputElem; every input that was started has dispatched at most one
\* AddElementCommand and an input that was not started none; a step taken
\* with no active input dispatches nothing; and when a pointer-down has
\* started a new input, every input started before has been flushed.
C28_OneInputOneCommand ==
    /\ [](/\ env.overlay \subseteq {tool.textInputElem} \ {None}
          /\ \A elem \in Inputs :
                env.dispatched[elem] <= (IF elem <= env.created THEN 1 ELSE 0))
    /\ [][/\ tool.textInputElem = None => env'.dispatched = env.dispatched
          /\ env'.created # env.created =>
                /\ tool'.textInputElem = env'.created
                /\ \A elem \in 1..env.created : env'.dispatched[elem] = 1
         ]_vars

\* A pointer-down has started the second input and the first one, which had
\* the focus, has dispatched its command.
C28_Witness ==
    /\ env.last.op = "pointerDown"
    /\ ~env.last.threw
    /\ tool.textInputElem = 2
    /\ env.overlay = {2}
    /\ env.dispatched[1] = 1
    /\ env.dispatched[2] = 0

\* C29: when no read is pending and the last onchange chose a file, the
\* widget corresponds to that file: if its read was fulfilled,
\* imageBase64URL and the preview source are its data and the submit button
\* is enabled; if its read was rejected, imageBase64URL is null and the
\* button is disabled.
C29_LastChosenFileWins ==
    (env.pending = {} /\ env.chosen # None) =>
        IF env.outcome[env.chosen] = "fulfilled"
        THEN /\ widget.imageBase64URL = env.image[env.chosen]
             /\ widget.previewSrc = env.image[env.chosen]
             /\ ~widget.submitDisabled
        ELSE /\ widget.imageBase64URL = None
             /\ widget.submitDisabled

\* C30: when the rest of the handler has run for a read that was rejected,
\* the status view shows imageLoadError(e), imageBase64URL is null and the
\* submit button is disabled.
C30_RejectedReadShowsError ==
    env.last.op = "rejected" =>
        /\ widget.statusView = "imageLoadError"
        /\ widget.imageBase64URL = None
        /\ widget.submitDisabled

----------------------------------------------------------------------------
\* C31: for a ToolbarWidget with a dropdown, in every state reached by clicks
\* and tool events the dropdown is visible only if the target tool is enabled,
\* and the container has the class dropdownVisible exactly when the dropdown
\* container lacks the class hidden; a click on the widget of a disabled tool
\* enables the tool and leaves the dropdown hidden, a click on the widget of
\* an enabled tool toggles the dropdown, and the tool's change to disabled
\* hides the dropdown.
C31_DropdownOnlyWhenEnabled ==
    /\ [](\A w \in Widgets :
            widget[w].hasDropdown =>
                /\ ~widget[w].hidden => tool[widget[w].targetTool]
                /\ widget[w].dropdownVisible <=> ~widget[w].hidden)
    /\ [][\A w \in Widgets :
            (env'.last = [op |-> "click", widget |-> w] /\ widget[w].hasDropdown) =>
                /\ tool'[widget[w].targetTool]
                /\ widget'[w].hidden =
                      IF tool[widget[w].targetTool] THEN ~widget[w].hidden ELSE TRUE]_vars
    /\ [][\A w \in Widgets :
            (/\ env'.last.op = "setEnabled"
             /\ env'.last.tool = widget[w].targetTool
             /\ tool[widget[w].targetTool]
             /\ ~tool'[widget[w].targetTool]) => widget'[w].hidden]_vars

\* The target tool of a widget whose dropdown had been shown was disabled, and
\* the dropdown was hidden.
C31_Witness ==
    \E w \in Widgets :
        /\ widget[w].hasDropdown
        /\ widget[w].announced = "dropdownHidden"
        /\ env.last = [op |-> "setEnabled", tool |-> widget[w].targetTool, enabled |-> FALSE]
        /\ \E v \in Widgets : v # w /\ widget[v].hasDropdown /\ ~widget[v].hidden

----------------------------------------------------------------------------
\* C32: after addDefaultActionButtons the Undo and the Redo button are both
\* disabled until the first UndoRedoStackUpdated event, and after such an
\* event the Undo button is disabled exactly when the last reported
\* undoStackSize is 0 and the Redo button exactly when the last reported
\* redoStackSize is 0.
C32_ButtonsFollowReportedSizes ==
    \A t \in Toolbars :
        widget[t].added =>
            IF t \notin env.seen
            THEN widget[t].undoDisabled /\ widget[t].redoDisabled
            ELSE /\ widget[t].undoDisabled <=> env.reported[t].undoStackSize = 0
                 /\ widget[t].redoDisabled <=> env.reported[t].redoStackSize = 0

\* A toolbar got its buttons while the history was not empty and has seen no
\* event yet; another one has seen an undo and has only its Redo button
\* enabled.
C32_Witness ==
    \E t, u \in Toolbars :
        /\ widget[t].added
        /\ t \notin env.seen
        /\ env.redoStackSize > 0
        /\ widget[u].added
        /\ widget[u].undoDisabled
        /\ ~widget[u].redoDisabled

----------------------------------------------------------------------------
\* C33: an SVG export renders on a temporary clone of the image's viewport
\* with the identity transform (the image's own viewport is left alone) and
\* restores the clone's original transform before the size is applied; the
\* completion callback returns the element toSVGInternal returns; the
\* synchronous export returns only after rendering and completion; the
\* promise of the asynchronous export resolves with that same element, only
\* after renderAllAsync has rendered everything and the completion has run;
\* and the element has the autoresize class exactly when the image's flag was
\* set at the completion.
C33_ExportOrder ==
    /\ [](\A e \in Exports :
            LET x == svg[e]
            IN /\ x.rendered \subseteq {Identity}
               /\ x.completed # None =>
                     /\ x.sizedWith = x.origTransform
                     /\ x.completed = x.returned
                     /\ x.components = NumComponents
                     /\ x.autoresizeClass <=> env.atCompletion[e]
               /\ (x.mode = "sync" /\ x.returned # None) =>
                     x.log = <<"clone", "reset", "render", "complete", "return">>
               /\ x.resolved # None =>
                     /\ x.resolved = x.returned
                     /\ x.resolved = x.completed
                     /\ x.components = NumComponents
                     /\ x.log[Len(x.log) - 1] = "complete"
                     /\ x.log[Len(x.log)] = "resolve")
    /\ [][env'.transform # env.transform => env'.last.op = "setTransform"]_vars

\* An asynchronous export of an image whose viewport is not at the identity
\* has resolved with the autoresize class, and a synchronous export has
\* returned an element without it.
C33_Witness ==
    \E e, d \in Exports :
        /\ svg[e].mode = "async"
        /\ svg[e].resolved = e
        /\ svg[e].origTransform # Identity
        /\ svg[e].autoresizeClass
        /\ svg[d].mode = "sync"
        /\ svg[d].returned = d
        /\ ~svg[d].autoresizeClass

====
